---- MODULE Spec2Model ----
(***************************************************************************)
(* A model of result::Result<T, E> (result.hpp): the tagged storage, the   *)
(* state tag with its moved states, the ok()/err() constructors, the       *)
(* conversion constructors from half-typed results, the queries, the       *)
(* consuming extractions, map / map_err, the TRY macro and the div_sqrt    *)
(* demo that uses it.                                                      *)
(*                                                                         *)
(* A pool of MaxResults slots holds the Result objects that are alive.     *)
(* Every member function is an operator on a Result record that returns    *)
(* the set of its possible outcomes (the object afterwards, the returned   *)
(* value, the panic message); the actions apply them to the pool.          *)
(***************************************************************************)
EXTENDS Integers, Sequences, FiniteSets, TLC

(* ---------------------------------------------------------------- bounds *)

\* Result objects alive at the same time.
MaxResults == 2

\* Integer payloads given to ok() and err() are 1..MaxVal.
MaxVal == 2

\* Values computed by project() stay at or below this cap.
ValCap == MaxVal * MaxVal

Slots == 1..MaxResults

(* ---------------------------------------------------------------- values *)

\* A value of some C++ type: the type's name, an integer payload, a what().
Val(type, n, what) == [type |-> type, n |-> n, what |-> what]

IntVal(n) == Val("int", n, "")

\* A bool returned by a query.
Bool(b) == Val("bool", IF b THEN 1 ELSE 0, "")

\* variants::NullOk / variants::NullErr: empty marker structs.
NullOk == Val("NullOk", 0, "")
NullErr == Val("NullErr", 0, "")

\* The error div_safe constructs.
DivMsg == "Division by zero is undefined!"
RuntimeError(what) == Val("runtime_error", 0, what)

\* The `uninit` member of the union: no T and no E has been constructed.
Uninit == Val("uninit", 0, "")

\* No value came back (void, or the call did not return).
NoValue == Val("none", 0, "")

\* What std::move(x) leaves behind in x: an object of the same type that is
\* valid but whose value is not specified.  No member function reads a side
\* of the union after it has been moved from; only ~Result destroys it.
MovedFrom(v) == {Val(v.type, 0, "<moved-from>")}

\* T(std::move(u)): constructing a T from a U.  Same type: the value.  A
\* std::exception constructed from a std::runtime_error is sliced to the
\* base class; whether what() survives is up to the standard library.
ConvTargets(type) ==
    IF type = "runtime_error" THEN {"runtime_error", "exception"} ELSE {type}

Construct(type, v) ==
    IF v.type = type THEN {v}
    ELSE IF v.type = "runtime_error" /\ type = "exception"
    THEN {Val("exception", 0, v.what), Val("exception", 0, "std::exception")}
    ELSE {}

(* ------------------------------------------------------- detail::panic  *)

\* snprintf of a format with one %s.
Format(before, arg, after) == before \o arg \o after

(* ---------------------------------------------------------- ResultState *)

ResultState == {"Ok", "Err", "MovedOk", "MovedErr"}

(* --------------------------------------------------------------- Result *)

\* data_ is the union {ok, err}; state_ the tag.  tNull / eNull say whether
\* T is variants::NullOk and E is variants::NullErr (a half-typed result).
MkResult(state, tNull, eNull, okv, errv) ==
    [state |-> state, tNull |-> tNull, eNull |-> eNull, ok |-> okv, err |-> errv]

\* An empty slot.
NoResult == MkResult("None", FALSE, FALSE, Uninit, Uninit)

\* Result(T&& value, OkTag) / Result(const T& value, OkTag)
ResultOkTag(value, eNull) ==
    MkResult("Ok", value.type = "NullOk", eNull, value, Uninit)

\* Result(E&& value, ErrTag) / Result(const E& value, ErrTag)
ResultErrTag(value, tNull) ==
    MkResult("Err", tNull, value.type = "NullErr", Uninit, value)

\* ok(value): Result<T, NullErr>
ok(value) == ResultOkTag(value, TRUE)

\* err(value): Result<NullOk, E>
err(value) == ResultErrTag(value, TRUE)

\* What a member function does: the object afterwards, the value returned
\* (NoValue when it panicked), the panic message ("" when it returned).
Outcome(self, ret, msg) == [self |-> self, ret |-> ret, panic |-> msg]

is_ok(r) == r.state = "Ok"

\* is_err() with the comparison of is_ok() pasted in.
is_err_tests_ok(r) == r.state = "Ok"

is_err(r) == r.state = "Err"

\* Result::operator bool
operator_bool(r) == r.state = "Ok"

\* a == b and a != b of two Results.  Result declares no comparison; the
\* built-in comparison applies after each side has been converted by
\* operator bool.
Equals(a, b) == operator_bool(a) = operator_bool(b)
NotEquals(a, b) == operator_bool(a) # operator_bool(b)

\* unwrap() that tags the object as moved on the failure side.
unwrap_tags_err_side(r) ==
    IF r.state = "Ok"
    THEN { Outcome([r EXCEPT !.state = "MovedErr", !.ok = m], r.ok, "")
             : m \in MovedFrom(r.ok) }
    ELSE { Outcome(r, NoValue,
             Format("Panic: Called unwrap() on ",
                    IF r.state = "Err" THEN "an erroneous" ELSE "a moved",
                    " result!")) }

\* unwrap() that moves the value out and leaves the tag at Ok.
unwrap_keeps_state(r) ==
    IF r.state = "Ok"
    THEN { Outcome([r EXCEPT !.ok = m], r.ok, "") : m \in MovedFrom(r.ok) }
    ELSE { Outcome(r, NoValue,
             Format("Panic: Called unwrap() on ",
                    IF r.state = "Err" THEN "an erroneous" ELSE "a moved",
                    " result!")) }

unwrap(r) ==
    IF r.state = "Ok"
    THEN { Outcome([r EXCEPT !.state = "MovedOk", !.ok = m], r.ok, "")
             : m \in MovedFrom(r.ok) }
    ELSE { Outcome(r, NoValue,
             Format("Panic: Called unwrap() on ",
                    IF r.state = "Err" THEN "an erroneous" ELSE "a moved",
                    " result!")) }

\* unwrap_err() whose message tests for Err, as unwrap()'s does.
unwrap_err_tests_err(r) ==
    IF r.state = "Err"
    THEN { Outcome([r EXCEPT !.state = "MovedErr", !.err = m], r.err, "")
             : m \in MovedFrom(r.err) }
    ELSE { Outcome(r, NoValue,
             Format("Panic: Called unwrap_err() on ",
                    IF r.state = "Err" THEN "an OK" ELSE "a moved",
                    " result!")) }

unwrap_err(r) ==
    IF r.state = "Err"
    THEN { Outcome([r EXCEPT !.state = "MovedErr", !.err = m], r.err, "")
             : m \in MovedFrom(r.err) }
    ELSE { Outcome(r, NoValue,
             Format("Panic: Called unwrap_err() on ",
                    IF r.state = "Ok" THEN "an OK" ELSE "a moved",
                    " result!")) }

\* project(value) for the functions handed to map / map_err: the square of
\* test_map on ints, and a function from any other type to int.
Funcs == {"square", "one"}
project(f, v) == IF f = "square" THEN IntVal(v.n * v.n) ELSE IntVal(1)

\* A combinator's or constructor's outcome: the source afterwards, the Result
\* constructed (NoResult when it panicked), the panic message, the number of
\* calls of project.
Made(self, made, msg, fcalls) ==
    [self |-> self, made |-> made, panic |-> msg, fcalls |-> fcalls]

\* map() that wraps the value without calling project.
map_no_project(r, f) ==
    IF r.state = "Ok"
    THEN { Made(o.self, ResultOkTag(o.ret, r.eNull), "", 0) : o \in unwrap(r) }
    ELSE { IF o.panic = ""
           THEN Made(o.self, ResultErrTag(o.ret, FALSE), "", 0)
           ELSE Made(o.self, NoResult, o.panic, 0)
             : o \in unwrap_err(r) }

\* Result::map
map(r, f) ==
    IF r.state = "Ok"
    THEN { Made(o.self, ResultOkTag(project(f, o.ret), r.eNull), "", 1)
             : o \in unwrap(r) }
    ELSE { IF o.panic = ""
           THEN Made(o.self, ResultErrTag(o.ret, FALSE), "", 0)
           ELSE Made(o.self, NoResult, o.panic, 0)
             : o \in unwrap_err(r) }

\* map_err() that wraps the failure without calling project.
map_err_no_project(r, f) ==
    IF r.state = "Err"
    THEN { Made(o.self, ResultErrTag(o.ret, r.tNull), "", 0) : o \in unwrap_err(r) }
    ELSE { IF o.panic = ""
           THEN Made(o.self, ResultOkTag(o.ret, FALSE), "", 0)
           ELSE Made(o.self, NoResult, o.panic, 0)
             : o \in unwrap(r) }

\* Result::map_err
map_err(r, f) ==
    IF r.state = "Err"
    THEN { Made(o.self, ResultErrTag(project(f, o.ret), r.tNull), "", 1)
             : o \in unwrap_err(r) }
    ELSE { IF o.panic = ""
           THEN Made(o.self, ResultOkTag(o.ret, FALSE), "", 0)
           ELSE Made(o.self, NoResult, o.panic, 0)
             : o \in unwrap(r) }

\* What a member function that returns a value and is given functions does:
\* the object afterwards, the value returned, the panic message, the calls
\* of the first and of the second function.
Called(self, ret, msg, fcalls, gcalls) ==
    [self |-> self, ret |-> ret, panic |-> msg, fcalls |-> fcalls,
     gcalls |-> gcalls]

\* unwrap_or() that discards the failure with unwrap_err() before it returns
\* optb.
unwrap_or_discards(r, optb) ==
    IF r.state = "Ok"
    THEN { Called(o.self, o.ret, "", 0, 0) : o \in unwrap(r) }
    ELSE { Called(o.self, IF o.panic = "" THEN optb ELSE NoValue, o.panic, 0, 0)
             : o \in unwrap_err(r) }

\* unwrap_or() that moves the ok value out and leaves the tag at Ok.
unwrap_or_keeps_state(r, optb) ==
    IF r.state = "Ok"
    THEN { Called([r EXCEPT !.ok = m], r.ok, "", 0, 0) : m \in MovedFrom(r.ok) }
    ELSE { Called(r, optb, "", 0, 0) }

\* Result::unwrap_or: the ok value moved out in state Ok, optb otherwise.
unwrap_or(r, optb) ==
    IF r.state = "Ok"
    THEN { Called([r EXCEPT !.state = "MovedOk", !.ok = m], r.ok, "", 0, 0)
             : m \in MovedFrom(r.ok) }
    ELSE { Called(r, optb, "", 0, 0) }

\* op(): a function called without an argument works on its default one,
\* as [](int e = 0) { ... } does.
DefaultArg == IntVal(0)
call(op) == project(op, DefaultArg)

\* Result::unwrap_or_else: the ok value moved out in state Ok, op() otherwise.
unwrap_or_else(r, op) ==
    IF r.state = "Ok"
    THEN { Called([r EXCEPT !.state = "MovedOk", !.ok = m], r.ok, "", 0, 0)
             : m \in MovedFrom(r.ok) }
    ELSE { Called(r, call(op), "", 1, 0) }

\* match() that hands data_.ok to if_ok without unwrap().
match_reads_ok(r, if_ok, if_err) ==
    IF r.state = "Ok"
    THEN { Called(r, project(if_ok, r.ok), "", 1, 0) }
    ELSE { IF o.panic = ""
           THEN Called(o.self, project(if_err, o.ret), "", 0, 1)
           ELSE Called(o.self, NoValue, o.panic, 0, 0)
             : o \in unwrap_err(r) }

\* Result::match: if_ok(unwrap()) in state Ok, if_err(unwrap_err()) otherwise.
match(r, if_ok, if_err) ==
    IF r.state = "Ok"
    THEN { Called(o.self, project(if_ok, o.ret), "", 1, 0) : o \in unwrap(r) }
    ELSE { IF o.panic = ""
           THEN Called(o.self, project(if_err, o.ret), "", 0, 1)
           ELSE Called(o.self, NoValue, o.panic, 0, 0)
             : o \in unwrap_err(r) }

\* The conversion with state_ copied after result.unwrap() has run.
ResultFromOk_state_after(r, type) ==
    LET outs == unwrap(r) IN
      { Made(o.self, NoResult, o.panic, 0) : o \in {x \in outs : x.panic # ""} }
      \cup
      UNION { { Made(o.self, MkResult(o.self.state, FALSE, FALSE, c, Uninit), "", 0)
                  : c \in Construct(type, o.ret) }
              : o \in {x \in outs : x.panic = ""} }

\* Result(Result<U, variants::NullErr>&& result), result.hpp with map:
\* state_(result.state_), then the union is built from result.unwrap().
ResultFromOk(r, type) ==
    LET outs == unwrap(r) IN
      { Made(o.self, NoResult, o.panic, 0) : o \in {x \in outs : x.panic # ""} }
      \cup
      UNION { { Made(o.self, MkResult(r.state, FALSE, FALSE, c, Uninit), "", 0)
                  : c \in Construct(type, o.ret) }
              : o \in {x \in outs : x.panic = ""} }

\* Result(Result<variants::NullOk, F>&& result), result.hpp with map.
ResultFromErr(r, type) ==
    LET outs == unwrap_err(r) IN
      { Made(o.self, NoResult, o.panic, 0) : o \in {x \in outs : x.panic # ""} }
      \cup
      UNION { { Made(o.self, MkResult(r.state, FALSE, FALSE, Uninit, c), "", 0)
                  : c \in Construct(type, o.ret) }
              : o \in {x \in outs : x.panic = ""} }

\* The same two constructors in the header that checks its own copy of the
\* state first (RESULT_NO_INVALID_CHECKS not defined).
ResultFromOkChecked(r, type) ==
    IF r.state = "Ok"
    THEN ResultFromOk(r, type)
    ELSE { Made(r, NoResult,
             Format("Panic: Called Result(Result<U, variants::NullErr>&&) with ",
                    IF r.state = "Err" THEN "an erroneous" ELSE "a moved",
                    " result!"), 0) }

ResultFromErrChecked(r, type) ==
    IF r.state = "Err"
    THEN ResultFromErr(r, type)
    ELSE { Made(r, NoResult,
             Format("Panic: Called Result(Result<variants::NullOk, F>&&) with ",
                    IF r.state = "Err" THEN "an erroneous" ELSE "a moved",
                    " result!"), 0) }

\* A copy constructor that copies the tag and the storage as they are.
ResultCopy_memberwise(r) == { Made(r, r, "", 0) }

\* Result(const Result<T, E>& result): state_(result.state_), then the ok
\* side is built from result.unwrap() in state Ok and the err side from
\* result.unwrap_err() otherwise.  Both extractions are non-const members
\* called on a const reference: a build that lets this through runs them on
\* the source.
ResultCopy(r) ==
    IF r.state = "Ok"
    THEN { Made(o.self, MkResult(r.state, r.tNull, r.eNull, o.ret, Uninit), "", 0)
             : o \in unwrap(r) }
    ELSE { IF o.panic = ""
           THEN Made(o.self, MkResult(r.state, r.tNull, r.eNull, Uninit, o.ret), "", 0)
           ELSE Made(o.self, NoResult, o.panic, 0)
             : o \in unwrap_err(r) }

\* The move constructor with state_ copied after the extraction has run.
ResultMove_state_after(r) ==
    IF r.state = "Ok"
    THEN { Made(o.self, MkResult(o.self.state, r.tNull, r.eNull, o.ret, Uninit), "", 0)
             : o \in unwrap(r) }
    ELSE { IF o.panic = ""
           THEN Made(o.self, MkResult(o.self.state, r.tNull, r.eNull, Uninit, o.ret),
                     "", 0)
           ELSE Made(o.self, NoResult, o.panic, 0)
             : o \in unwrap_err(r) }

\* Result(Result<T, E>&& result): state_(result.state_), then the ok side is
\* built from result.unwrap() in state Ok and the err side from
\* result.unwrap_err() otherwise.
ResultMove(r) ==
    IF r.state = "Ok"
    THEN { Made(o.self, MkResult(r.state, r.tNull, r.eNull, o.ret, Uninit), "", 0)
             : o \in unwrap(r) }
    ELSE { IF o.panic = ""
           THEN Made(o.self, MkResult(r.state, r.tNull, r.eNull, Uninit, o.ret), "", 0)
           ELSE Made(o.self, NoResult, o.panic, 0)
             : o \in unwrap_err(r) }

\* The move constructor of the header that checks its own copy of the state
\* (RESULT_NO_INVALID_CHECKS not defined).
ResultMoveChecked(r) ==
    IF r.state \in {"Ok", "Err"}
    THEN ResultMove(r)
    ELSE { Made(r, NoResult, "Panic: Called Result(Result&&) with a moved result!", 0) }

\* What all / any / all_then / any_else do: self afterwards, the Result
\* returned (NoResult when it panicked), the panic message, the calls of op.
Chained(self, made, msg, fcalls) ==
    [self |-> self, made |-> made, panic |-> msg, fcalls |-> fcalls]

\* all() that hands res on whatever state self is in.
all_ignores_self(r, res) ==
    { Chained(r, m.made, m.panic, 0) : m \in ResultMove(res) }

\* Result::all: res moved into the return value in state Ok, a Result built
\* from unwrap_err() otherwise.
all(r, res) ==
    IF r.state = "Ok"
    THEN { Chained(r, m.made, m.panic, 0) : m \in ResultMove(res) }
    ELSE { IF o.panic = ""
           THEN Chained(o.self, ResultErrTag(o.ret, res.tNull), "", 0)
           ELSE Chained(o.self, NoResult, o.panic, 0)
             : o \in unwrap_err(r) }

\* Result::any: result moved into the return value in state Err, a Result
\* built from unwrap() otherwise.
any(r, res) ==
    IF r.state = "Err"
    THEN { Chained(r, m.made, m.panic, 0) : m \in ResultMove(res) }
    ELSE { IF o.panic = ""
           THEN Chained(o.self, ResultOkTag(o.ret, res.eNull), "", 0)
           ELSE Chained(o.self, NoResult, o.panic, 0)
             : o \in unwrap(r) }

\* The functions handed to all_then / any_else return a half-typed Result:
\* `return op();` has to convert what op returns, of type R, to the declared
\* Result<R, E> (resp. Result<T, R>), and the converting constructors are the
\* only ones that take another type.
then_op(op) == err(call(op))
else_op(op) == ok(call(op))

\* all_then() that evaluates op() before it looks at the state.
all_then_eager(r, op, type) ==
    IF r.state = "Ok"
    THEN { Chained(r, m.made, m.panic, 1) : m \in ResultFromErr(then_op(op), type) }
    ELSE { IF o.panic = ""
           THEN Chained(o.self, ResultErrTag(o.ret, FALSE), "", 1)
           ELSE Chained(o.self, NoResult, o.panic, 1)
             : o \in unwrap_err(r) }

\* Result::all_then; type is E.
all_then(r, op, type) ==
    IF r.state = "Ok"
    THEN { Chained(r, m.made, m.panic, 1) : m \in ResultFromErr(then_op(op), type) }
    ELSE { IF o.panic = ""
           THEN Chained(o.self, ResultErrTag(o.ret, FALSE), "", 0)
           ELSE Chained(o.self, NoResult, o.panic, 0)
             : o \in unwrap_err(r) }

\* Result::any_else; type is T.
any_else(r, op, type) ==
    IF r.state = "Err"
    THEN { Chained(r, m.made, m.panic, 1) : m \in ResultFromOk(else_op(op), type) }
    ELSE { IF o.panic = ""
           THEN Chained(o.self, ResultOkTag(o.ret, FALSE), "", 0)
           ELSE Chained(o.self, NoResult, o.panic, 0)
             : o \in unwrap(r) }

\* std::reference_wrapper<T>(data_.ok) / std::reference_wrapper<E>(data_.err)
\* of the object in slot i: it names the member, it holds no copy of it.
Ref(i, side) == Val("ref", i, side)

\* as_ref() that unwraps the value to wrap it.
as_ref_moves(r, i) ==
    IF r.state = "Ok"
    THEN { Made(o.self, ResultOkTag(Ref(i, "ok"), FALSE), "", 0) : o \in unwrap(r) }
    ELSE IF r.state = "Err"
    THEN { Made(o.self, ResultErrTag(Ref(i, "err"), FALSE), "", 0)
             : o \in unwrap_err(r) }
    ELSE { Made(r, NoResult, "Panic: Called as_ref() on a moved result!", 0) }

\* Result::as_ref (const and non-const) of the object in slot i.
as_ref(r, i) ==
    IF r.state = "Ok"
    THEN { Made(r, ResultOkTag(Ref(i, "ok"), FALSE), "", 0) }
    ELSE IF r.state = "Err"
    THEN { Made(r, ResultErrTag(Ref(i, "err"), FALSE), "", 0) }
    ELSE { Made(r, NoResult, "Panic: Called as_ref() on a moved result!", 0) }

\* A destructor that tests for State::Ok alone.
Destructor_tests_ok_only(r) == IF r.state = "Ok" THEN "ok" ELSE "err"

\* ~Result: the side of the union whose destructor runs.
Destructor(r) == IF r.state = "Ok" \/ r.state = "MovedOk" THEN "ok" ELSE "err"

(* ---------------------------------------------------------------- state *)

VARIABLES
    results,   \* slot -> the Result object in it (NoResult: none)
    last,      \* the last operation: what it was called on and what came back
    handed,    \* slot -> values unwrap()/unwrap_err() returned from this object
    origin,    \* slot -> the value ok()/err() was given, while the object that
               \* holds it, or a conversion of that object, is unconsumed
    proc,      \* "running", or "terminated" once panic() has run
    fn         \* the activation of a function that uses TRY

vars == <<results, last, handed, origin, proc, fn>>

\* op: the operation; self: the slot it was called on (0: none); pre: self's
\* state before; src: self's origin before; f: the function it was given;
\* out: the value returned; panic: the panic message; fcalls: calls of f;
\* made: the slot of the Result it constructed (0: none); g, gcalls: a second
\* function it was given and the calls of it; arg: a value or Result it was
\* given.
LastOf(op, self, pre, src, f, out, msg, fcalls, made) ==
    [op |-> op, self |-> self, pre |-> pre, src |-> src, f |-> f, out |-> out,
     panic |-> msg, fcalls |-> fcalls, made |-> made,
     g |-> "", gcalls |-> 0, arg |-> NoValue]
LastWith(l, g, gcalls, arg) ==
    [l EXCEPT !.g = g, !.gcalls = gcalls, !.arg = arg]
Last(op, self, pre, f, out, msg, fcalls, made) ==
    LastOf(op, self, pre, NoValue, f, out, msg, fcalls, made)

\* detail::panic is noexcept and throws: the exception cannot leave it, and
\* std::terminate ends the process.
panic(msg) == IF msg = "" THEN "running" ELSE "terminated"

Live(i) == results[i].state # "None"
Free == {s \in Slots : ~Live(s)}
NewSlot == CHOOSE s \in Free : \A t \in Free : s <= t

\* One more value handed out by unwrap()/unwrap_err() of an object.
Count(n, returned) == IF returned /\ n < 2 THEN n + 1 ELSE n

\* The declared T (resp. E) as far as the object shows it.
TypeT(r) == IF r.ok.type # "uninit" THEN r.ok.type
            ELSE IF r.tNull THEN "NullOk" ELSE "any"
TypeE(r) == IF r.err.type # "uninit" THEN r.err.type
            ELSE IF r.eNull THEN "NullErr" ELSE "any"
Accepts(f, type) == IF f = "square" THEN type \in {"int", "any"}
                    ELSE type # "int"
TargetTypes(type) == IF type \in {"any", "NullOk", "NullErr"} THEN {"int"}
                     ELSE ConvTargets(type)

OkInputs == {IntVal(n) : n \in 1..MaxVal} \cup {RuntimeError(DivMsg)}
ErrInputs == {IntVal(n) : n \in 1..MaxVal} \cup {RuntimeError(DivMsg)}

(* ------------------------------------------------- TRY and its callers *)

\* Arguments of div_sqrt are 0..MaxArg.
MaxArg == 2

\* a / b of two ints: the quotient truncated towards zero.
CDiv(a, b) ==
    LET q == (IF a < 0 THEN -a ELSE a) \div (IF b < 0 THEN -b ELSE b)
    IN IF (a < 0) = (b < 0) THEN q ELSE -q

\* int sqrt(int x): int(std::sqrt(x)) of a non-negative x.
sqrt(x) == CHOOSE r \in 0..x : r * r <= x /\ x < (r + 1) * (r + 1)

\* The first (only) Result a constructor call gives when it cannot panic.
TheMade(outs) == {o.made : o \in outs}

\* div_safe(a, b): Result<int, std::runtime_error>
div_safe(a, b) ==
    IF b # 0
    THEN TheMade(ResultFromOk(ok(IntVal(CDiv(a, b))), "int"))
    ELSE TheMade(ResultFromErr(err(RuntimeError(DivMsg)), "runtime_error"))

\* What TRY(expr, ok) does with the Result `expr` evaluated to, in a function
\* whose failure type is retE: the Result afterwards, the value assigned to
\* `ok` (NoValue: not assigned), the Result the function returns (NoResult:
\* it goes on), the panic message, the number of evaluations of expr.
Tried(self, bind, ret, msg) ==
    [self |-> self, bind |-> bind, ret |-> ret, panic |-> msg, evals |-> 1]

\* TRY without the is_ok() test: it unwraps whatever it is given.
TRY_unchecked(r, retE) ==
    { Tried(o.self, o.ret, NoResult, o.panic) : o \in unwrap(r) }

TRY(r, retE) ==
    IF is_ok(r)
    THEN { Tried(o.self, o.ret, NoResult, o.panic) : o \in unwrap(r) }
    ELSE UNION { IF o.panic # ""
                 THEN { Tried(o.self, NoValue, NoResult, o.panic) }
                 ELSE { Tried(o.self, NoValue, m, "")
                          : m \in TheMade(ResultFromErr(err(o.ret), retE)) }
                 : o \in unwrap_err(r) }

\* pc: "idle", "try" (at the TRY statement), "after" (past it), "returned".
\* got: the Result the expression evaluated to, as TRY found it.
Frame(pc, expr, retE, got, value, evals, after, ret) ==
    [pc |-> pc, expr |-> expr, retE |-> retE, got |-> got, value |-> value,
     evals |-> evals, after |-> after, ret |-> ret]

\* The expression handed to TRY: a call of div_safe, or an lvalue Result.
CallExpr(a, b) == [kind |-> "div_safe", a |-> a, b |-> b, slot |-> 0]
RefExpr(i) == [kind |-> "ref", a |-> 0, b |-> 0, slot |-> i]
NoExpr == [kind |-> "none", a |-> 0, b |-> 0, slot |-> 0]

Idle == Frame("idle", NoExpr, "none", NoResult, Uninit, 0, 0, NoResult)

Init ==
    /\ results = [s \in Slots |-> NoResult]
    /\ last = Last("init", 0, "None", "", NoValue, "", 0, 0)
    /\ handed = [s \in Slots |-> 0]
    /\ origin = [s \in Slots |-> NoValue]
    /\ proc = "running"
    /\ fn = Idle

(* -------------------------------------------------------------- actions *)

\* ok(v): a temporary or a local Result<T, NullErr>.
Ok(v) ==
    /\ proc = "running" /\ fn.pc = "idle" /\ Free # {}
    /\ results' = [results EXCEPT ![NewSlot] = ok(v)]
    /\ last' = Last("ok", 0, "None", "", NoValue, "", 0, NewSlot)
    /\ origin' = [origin EXCEPT ![NewSlot] = v]
    /\ UNCHANGED <<handed, proc, fn>>

\* err(e): a temporary or a local Result<NullOk, E>.
Err(e) ==
    /\ proc = "running" /\ fn.pc = "idle" /\ Free # {}
    /\ results' = [results EXCEPT ![NewSlot] = err(e)]
    /\ last' = Last("err", 0, "None", "", NoValue, "", 0, NewSlot)
    /\ origin' = [origin EXCEPT ![NewSlot] = e]
    /\ UNCHANGED <<handed, proc, fn>>

\* A constructor or combinator called on slot i that builds a new Result;
\* f is the function it was given, converts says that it is a conversion.
BuildWith(op, i, f, converts, arg, outs) ==
    /\ proc = "running" /\ fn.pc = "idle" /\ Live(i) /\ Free # {}
    /\ \E o \in outs :
        /\ results' = [results EXCEPT ![i] = o.self, ![NewSlot] = o.made]
        /\ last' = LastWith(LastOf(op, i, results[i].state, origin[i], f, NoValue,
                                   o.panic, o.fcalls,
                                   IF o.panic = "" THEN NewSlot ELSE 0),
                            "", 0, arg)
        /\ handed' = [handed EXCEPT
                        ![i] = Count(@, o.self.state # results[i].state)]
        /\ origin' = [origin EXCEPT
                        ![i] = IF o.self.state # results[i].state
                               THEN NoValue ELSE @,
                        ![NewSlot] = IF converts /\ o.panic = ""
                                     THEN origin[i] ELSE NoValue]
        /\ proc' = panic(o.panic)
        /\ UNCHANGED fn

Build(op, i, f, converts, outs) == BuildWith(op, i, f, converts, NoValue, outs)

\* Result<T, E> r = std::move(half) for a Result<U, NullErr>.
ConvertOk(i) ==
    /\ results[i].eNull /\ ~results[i].tNull
    /\ \E type \in TargetTypes(TypeT(results[i])) :
         Build("Result(Result<U,NullErr>&&)", i, "", TRUE, ResultFromOk(results[i], type))

\* Result<T, E> r = std::move(half) for a Result<NullOk, F>.
ConvertErr(i) ==
    /\ results[i].tNull /\ ~results[i].eNull
    /\ \E type \in TargetTypes(TypeE(results[i])) :
         Build("Result(Result<NullOk,F>&&)", i, "", TRUE, ResultFromErr(results[i], type))

ConvertOkChecked(i) ==
    /\ results[i].eNull /\ ~results[i].tNull
    /\ \E type \in TargetTypes(TypeT(results[i])) :
         Build("checked Result(Result<U,NullErr>&&)", i, "", TRUE,
               ResultFromOkChecked(results[i], type))

ConvertErrChecked(i) ==
    /\ results[i].tNull /\ ~results[i].eNull
    /\ \E type \in TargetTypes(TypeE(results[i])) :
         Build("checked Result(Result<NullOk,F>&&)", i, "", TRUE,
               ResultFromErrChecked(results[i], type))

Map(i, f) ==
    /\ Accepts(f, TypeT(results[i]))
    /\ results[i].state = "Ok" => project(f, results[i].ok).n <= ValCap
    /\ Build("map", i, f, FALSE, map(results[i], f))

MapErr(i, f) ==
    /\ Accepts(f, TypeE(results[i]))
    /\ results[i].state = "Err" => project(f, results[i].err).n <= ValCap
    /\ Build("map_err", i, f, FALSE, map_err(results[i], f))

\* A query on slot i: nothing but the answer changes.
IsOk(i) ==
    /\ proc = "running" /\ fn.pc = "idle" /\ Live(i)
    /\ last' = Last("is_ok", i, results[i].state, "",
                    Bool(is_ok(results[i])), "", 0, 0)
    /\ UNCHANGED <<results, handed, origin, proc, fn>>

IsErr(i) ==
    /\ proc = "running" /\ fn.pc = "idle" /\ Live(i)
    /\ last' = Last("is_err", i, results[i].state, "",
                    Bool(is_err(results[i])), "", 0, 0)
    /\ UNCHANGED <<results, handed, origin, proc, fn>>

\* A consuming extraction on slot i.
Extract(op, i, outs) ==
    /\ proc = "running" /\ fn.pc = "idle" /\ Live(i)
    /\ \E o \in outs :
        /\ results' = [results EXCEPT ![i] = o.self]
        /\ last' = LastOf(op, i, results[i].state, origin[i], "", o.ret,
                          o.panic, 0, 0)
        /\ handed' = [handed EXCEPT ![i] = Count(@, o.panic = "")]
        /\ origin' = [origin EXCEPT ![i] = IF o.panic = "" THEN NoValue ELSE @]
        /\ proc' = panic(o.panic)
        /\ UNCHANGED fn

Unwrap(i) == Extract("unwrap", i, unwrap(results[i]))

UnwrapErr(i) == Extract("unwrap_err", i, unwrap_err(results[i]))

\* The object in slot i goes out of scope.
Destroy(i) ==
    /\ proc = "running" /\ fn.pc = "idle" /\ Live(i)
    /\ results' = [results EXCEPT ![i] = NoResult]
    /\ last' = Last("~Result", i, "None", "",
                    Val("destroyed", 0, Destructor(results[i])), "", 0, 0)
    /\ handed' = [handed EXCEPT ![i] = 0]
    /\ origin' = [origin EXCEPT ![i] = NoValue]
    /\ UNCHANGED <<proc, fn>>

\* A member function called on slot i that returns a value, given the
\* functions f and g and the argument arg.
Consume(op, i, f, g, arg, outs) ==
    /\ proc = "running" /\ fn.pc = "idle" /\ Live(i)
    /\ \E o \in outs :
        /\ results' = [results EXCEPT ![i] = o.self]
        /\ last' = LastWith(LastOf(op, i, results[i].state, origin[i], f, o.ret,
                                   o.panic, o.fcalls, 0), g, o.gcalls, arg)
        /\ handed' = [handed EXCEPT
                        ![i] = Count(@, o.self.state # results[i].state)]
        /\ origin' = [origin EXCEPT
                        ![i] = IF o.self.state # results[i].state
                               THEN NoValue ELSE @]
        /\ proc' = panic(o.panic)
        /\ UNCHANGED fn

\* r.match(if_ok, if_err) with two functions that return int.
Match(i, f, g) ==
    /\ ~results[i].tNull /\ ~results[i].eNull
    /\ Accepts(f, TypeT(results[i])) /\ Accepts(g, TypeE(results[i]))
    /\ results[i].state = "Ok" => project(f, results[i].ok).n <= ValCap
    /\ results[i].state = "Err" => project(g, results[i].err).n <= ValCap
    /\ Consume("match", i, f, g, NoValue, match(results[i], f, g))

\* The values handed to unwrap_or as optb.
Defaults == {IntVal(0)}

\* r.unwrap_or(d) of a Result whose T is int.
UnwrapOr(i, d) ==
    /\ TypeT(results[i]) \in {"int", "any"}
    /\ Consume("unwrap_or", i, "", "", d, unwrap_or(results[i], d))

\* r.unwrap_or_else(op) of a Result whose T is int.
UnwrapOrElse(i, op) ==
    /\ TypeT(results[i]) \in {"int", "any"}
    /\ Consume("unwrap_or_else", i, op, "", NoValue, unwrap_or_else(results[i], op))

\* results[i] == results[j] or results[i] != results[j].
Compare(op, i, j) ==
    /\ proc = "running" /\ fn.pc = "idle" /\ Live(i) /\ Live(j)
    /\ last' = LastWith(Last(op, i, results[i].state, "",
                             Bool(IF op = "==" THEN Equals(results[i], results[j])
                                  ELSE NotEquals(results[i], results[j])),
                             "", 0, 0),
                        "", 0, results[j])
    /\ UNCHANGED <<results, handed, origin, proc, fn>>

\* The Results handed to all / any as temporaries: a Result<int, int> in
\* state Ok or Err, and one that was consumed before it was handed over.
NextInputs ==
    {MkResult("Ok", FALSE, FALSE, IntVal(n), Uninit) : n \in 1..MaxVal}
    \cup {MkResult("Err", FALSE, FALSE, Uninit, IntVal(n)) : n \in 1..MaxVal}
    \cup {MkResult("MovedOk", FALSE, FALSE, m, Uninit) : m \in MovedFrom(IntVal(1))}

\* A combinator called on slot i that is given the Result or function arg
\* and returns a Result.
Chain(op, i, f, arg, outs) == BuildWith(op, i, f, FALSE, arg, outs)

\* r.all(std::move(res)) of a Result whose E is int.
AllWith(i, res) ==
    /\ TypeE(results[i]) \in {"int", "any"}
    /\ Chain("all", i, "", res, all(results[i], res))

\* r.any(std::move(res)) of a Result whose T is int.
AnyWith(i, res) ==
    /\ TypeT(results[i]) \in {"int", "any"}
    /\ Chain("any", i, "", res, any(results[i], res))

\* r.all_then(op) of a Result whose E is int.
AllThen(i, op) ==
    /\ TypeE(results[i]) \in {"int", "any"}
    /\ Chain("all_then", i, op, NoValue, all_then(results[i], op, "int"))

\* r.any_else(op) of a Result whose T is int.
AnyElse(i, op) ==
    /\ TypeT(results[i]) \in {"int", "any"}
    /\ Chain("any_else", i, op, NoValue, any_else(results[i], op, "int"))

\* Result<T, E> b(a);
CopyCtor(i) ==
    Build("Result(const Result&)", i, "", TRUE, ResultCopy(results[i]))

\* Result<T, E> b(std::move(a));
MoveCtor(i) ==
    Build("Result(Result&&)", i, "", TRUE, ResultMove(results[i]))

MoveCtorChecked(i) ==
    Build("checked Result(Result&&)", i, "", TRUE, ResultMoveChecked(results[i]))

\* auto view = r.as_ref();
AsRef(i) == Build("as_ref", i, "", FALSE, as_ref(results[i], i))

\* div_sqrt(a, b) is called: `int value;` is declared, TRY comes next.
CallDivSqrt(a, b) ==
    /\ proc = "running" /\ fn.pc = "idle"
    /\ fn' = Frame("try", CallExpr(a, b), "exception", NoResult, Uninit, 0, 0,
                   NoResult)
    /\ last' = Last("div_sqrt", 0, "None", "", NoValue, "", 0, 0)
    /\ UNCHANGED <<results, handed, origin, proc>>

\* A function of the caller's that takes the Result in slot i by reference
\* and starts with TRY(r, value); its failure type is r's.
CallTryOn(i) ==
    /\ proc = "running" /\ fn.pc = "idle" /\ Live(i)
    /\ ~results[i].eNull /\ TypeT(results[i]) \in {"int", "any"}
    /\ \E retE \in TargetTypes(TypeE(results[i])) :
         fn' = Frame("try", RefExpr(i), retE, NoResult, Uninit, 0, 0, NoResult)
    /\ last' = Last("try_on", i, results[i].state, "", NoValue, "", 0, 0)
    /\ UNCHANGED <<results, handed, origin, proc>>

\* The TRY statement, on the temporary div_safe returned.
TryCall ==
    /\ proc = "running" /\ fn.pc = "try" /\ fn.expr.kind = "div_safe"
    /\ \E r \in div_safe(fn.expr.a, fn.expr.b) : \E t \in TRY(r, fn.retE) :
        /\ fn' = [fn EXCEPT
                    !.pc = IF t.panic # "" THEN "try"
                           ELSE IF t.ret = NoResult THEN "after" ELSE "returned",
                    !.value = IF t.bind = NoValue THEN @ ELSE t.bind,
                    !.evals = @ + t.evals,
                    !.got = r,
                    !.ret = t.ret]
        /\ last' = Last("TRY", 0, r.state, "", t.bind, t.panic, 0, 0)
        /\ proc' = panic(t.panic)
    /\ UNCHANGED <<results, handed, origin>>

\* The TRY statement, on the Result in slot fn.expr.slot.
TryRef ==
    /\ proc = "running" /\ fn.pc = "try" /\ fn.expr.kind = "ref"
    /\ LET i == fn.expr.slot IN
       \E t \in TRY(results[i], fn.retE) :
        /\ fn' = [fn EXCEPT
                    !.pc = IF t.panic # "" THEN "try"
                           ELSE IF t.ret = NoResult THEN "after" ELSE "returned",
                    !.value = IF t.bind = NoValue THEN @ ELSE t.bind,
                    !.evals = @ + t.evals,
                    !.got = results[i],
                    !.ret = t.ret]
        /\ results' = [results EXCEPT ![i] = t.self]
        /\ handed' = [handed EXCEPT ![i] = Count(@, t.panic = "")]
        /\ origin' = [origin EXCEPT ![i] = IF t.panic = "" THEN NoValue ELSE @]
        /\ last' = Last("TRY", i, results[i].state, "", t.bind, t.panic, 0, 0)
        /\ proc' = panic(t.panic)

\* The statements after TRY: div_sqrt takes the root and returns ok(root);
\* the caller's function returns ok(value).
AfterTry ==
    /\ proc = "running" /\ fn.pc = "after"
    /\ LET root == IF fn.expr.kind = "div_safe" THEN sqrt(fn.value.n)
                   ELSE fn.value.n
       IN \E m \in TheMade(ResultFromOk(ok(IntVal(root)), "int")) :
            fn' = [fn EXCEPT !.pc = "returned", !.after = @ + 1, !.ret = m]
    /\ last' = Last("after TRY", 0, "None", "", NoValue, "", 0, 0)
    /\ UNCHANGED <<results, handed, origin, proc>>

\* The caller has the returned Result; the activation is gone.
Return ==
    /\ proc = "running" /\ fn.pc = "returned"
    /\ fn' = Idle
    /\ last' = Last("return", 0, fn.ret.state, "", NoValue, "", 0, 0)
    /\ UNCHANGED <<results, handed, origin, proc>>

Next ==
    \/ \E v \in OkInputs : Ok(v)
    \/ \E e \in ErrInputs : Err(e)
    \/ \E i \in Slots : ConvertOk(i)
    \/ \E i \in Slots : ConvertErr(i)
    \/ \E i \in Slots : ConvertOkChecked(i)
    \/ \E i \in Slots : ConvertErrChecked(i)
    \/ \E i \in Slots : IsOk(i)
    \/ \E i \in Slots : IsErr(i)
    \/ \E i \in Slots : Unwrap(i)
    \/ \E i \in Slots : UnwrapErr(i)
    \/ \E i \in Slots, f \in Funcs : Map(i, f)
    \/ \E i \in Slots, f \in Funcs : MapErr(i, f)
    \/ \E i \in Slots : Destroy(i)

Spec == Init /\ [][Next]_vars

\* Functions that use TRY, over Results made, converted, consumed and
\* destroyed by their caller.
NextTry ==
    \/ \E v \in OkInputs : Ok(v)
    \/ \E e \in ErrInputs : Err(e)
    \/ \E i \in Slots : ConvertOk(i)
    \/ \E i \in Slots : ConvertErr(i)
    \/ \E i \in Slots : Unwrap(i)
    \/ \E i \in Slots : UnwrapErr(i)
    \/ \E i \in Slots : Destroy(i)
    \/ \E a \in 0..MaxArg, b \in 0..MaxArg : CallDivSqrt(a, b)
    \/ \E i \in Slots : CallTryOn(i)
    \/ TryCall
    \/ TryRef
    \/ AfterTry
    \/ Return

SpecTry == Init /\ [][NextTry]_vars

\* Results made, converted, matched, extracted with a fallback and destroyed.
NextExtract ==
    \/ \E v \in OkInputs : Ok(v)
    \/ \E e \in ErrInputs : Err(e)
    \/ \E i \in Slots : ConvertOk(i)
    \/ \E i \in Slots : ConvertErr(i)
    \/ \E i \in Slots : Unwrap(i)
    \/ \E i \in Slots : UnwrapErr(i)
    \/ \E i \in Slots, f \in Funcs, g \in Funcs : Match(i, f, g)
    \/ \E i \in Slots, d \in Defaults : UnwrapOr(i, d)
    \/ \E i \in Slots, op \in Funcs : UnwrapOrElse(i, op)
    \/ \E i \in Slots : Destroy(i)

SpecExtract == Init /\ [][NextExtract]_vars

\* Results made, converted, compared, extracted and destroyed.
NextEq ==
    \/ \E v \in OkInputs : Ok(v)
    \/ \E e \in ErrInputs : Err(e)
    \/ \E i \in Slots : ConvertOk(i)
    \/ \E i \in Slots : ConvertErr(i)
    \/ \E i \in Slots : Unwrap(i)
    \/ \E i \in Slots : UnwrapErr(i)
    \/ \E i \in Slots, j \in Slots, op \in {"==", "!="} : Compare(op, i, j)
    \/ \E i \in Slots : Destroy(i)

SpecEq == Init /\ [][NextEq]_vars

\* Results made, converted, chained by all / any / all_then / any_else,
\* extracted and destroyed.
NextCombine ==
    \/ \E v \in OkInputs : Ok(v)
    \/ \E e \in ErrInputs : Err(e)
    \/ \E i \in Slots : ConvertOk(i)
    \/ \E i \in Slots : ConvertErr(i)
    \/ \E i \in Slots : Unwrap(i)
    \/ \E i \in Slots : UnwrapErr(i)
    \/ \E i \in Slots, res \in NextInputs : AllWith(i, res)
    \/ \E i \in Slots, res \in NextInputs : AnyWith(i, res)
    \/ \E i \in Slots, op \in Funcs : AllThen(i, op)
    \/ \E i \in Slots, op \in Funcs : AnyElse(i, op)
    \/ \E i \in Slots : Destroy(i)

SpecCombine == Init /\ [][NextCombine]_vars

\* The same with every transform combinator: map, map_err and match too.
NextTransform ==
    \/ \E v \in OkInputs : Ok(v)
    \/ \E e \in ErrInputs : Err(e)
    \/ \E i \in Slots : ConvertOk(i)
    \/ \E i \in Slots : ConvertErr(i)
    \/ \E i \in Slots : Unwrap(i)
    \/ \E i \in Slots : UnwrapErr(i)
    \/ \E i \in Slots, f \in Funcs : Map(i, f)
    \/ \E i \in Slots, f \in Funcs : MapErr(i, f)
    \/ \E i \in Slots, f \in Funcs, g \in Funcs : Match(i, f, g)
    \/ \E i \in Slots, res \in NextInputs : AllWith(i, res)
    \/ \E i \in Slots, res \in NextInputs : AnyWith(i, res)
    \/ \E i \in Slots, op \in Funcs : AllThen(i, op)
    \/ \E i \in Slots, op \in Funcs : AnyElse(i, op)
    \/ \E i \in Slots : Destroy(i)

SpecTransform == Init /\ [][NextTransform]_vars

\* Results made, converted, viewed through as_ref, extracted and destroyed.
NextRef ==
    \/ \E v \in OkInputs : Ok(v)
    \/ \E e \in ErrInputs : Err(e)
    \/ \E i \in Slots : ConvertOk(i)
    \/ \E i \in Slots : ConvertErr(i)
    \/ \E i \in Slots : AsRef(i)
    \/ \E i \in Slots : Unwrap(i)
    \/ \E i \in Slots : UnwrapErr(i)
    \/ \E i \in Slots : Destroy(i)

SpecRef == Init /\ [][NextRef]_vars

\* Results made, converted, copied, moved, extracted and destroyed.
NextCtor ==
    \/ \E v \in OkInputs : Ok(v)
    \/ \E e \in ErrInputs : Err(e)
    \/ \E i \in Slots : ConvertOk(i)
    \/ \E i \in Slots : ConvertErr(i)
    \/ \E i \in Slots : CopyCtor(i)
    \/ \E i \in Slots : MoveCtor(i)
    \/ \E i \in Slots : MoveCtorChecked(i)
    \/ \E i \in Slots : Unwrap(i)
    \/ \E i \in Slots : UnwrapErr(i)
    \/ \E i \in Slots : Destroy(i)

SpecCtor == Init /\ [][NextCtor]_vars

\* Every operation that can reach detail::panic.
NextPanic ==
    \/ \E v \in OkInputs : Ok(v)
    \/ \E e \in ErrInputs : Err(e)
    \/ \E i \in Slots : ConvertOk(i)
    \/ \E i \in Slots : ConvertErr(i)
    \/ \E i \in Slots : ConvertOkChecked(i)
    \/ \E i \in Slots : ConvertErrChecked(i)
    \/ \E i \in Slots : Unwrap(i)
    \/ \E i \in Slots : UnwrapErr(i)
    \/ \E i \in Slots : AsRef(i)
    \/ \E i \in Slots : Destroy(i)

SpecPanic == Init /\ [][NextPanic]_vars

(* --------------------------------------------------------------- claims *)

Moved == {"MovedOk", "MovedErr"}
Extractions == {"unwrap", "unwrap_err"}

\* C1: while a Result object lives, its state changes only from Ok to
\* MovedOk or from Err to MovedErr; nothing changes the state of an object
\* that is in MovedOk or MovedErr.
C1_StateTransitions ==
    [][\A i \in Slots :
         (Live(i) /\ results'[i].state # "None") =>
            \/ results'[i].state = results[i].state
            \/ results[i].state = "Ok" /\ results'[i].state = "MovedOk"
            \/ results[i].state = "Err" /\ results'[i].state = "MovedErr"]_vars

\* An operation was called on a consumed object, which is still consumed.
C1_Witness ==
    /\ last.op = "unwrap_err" /\ last.pre = "MovedOk"
    /\ results[last.self].state = "MovedOk"

\* C2: unwrap()/unwrap_err() hand the value of an object out at most once;
\* called on an object that has been consumed they take the panic path and
\* return nothing.
C2_ConsumeOnce ==
    /\ \A i \in Slots : handed[i] <= 1
    /\ (last.op \in Extractions /\ last.pre \in Moved) =>
          last.panic # "" /\ last.out = NoValue

\* A second unwrap() of an object whose value was handed out.
C2_Witness ==
    /\ last.op = "unwrap" /\ last.pre = "MovedOk" /\ last.panic # ""
    /\ handed[last.self] = 1

\* C3: unwrap() returns the ok value and moves the state to MovedOk exactly
\* in state Ok; otherwise it panics and leaves the state, with "an erroneous"
\* in the message for Err and "a moved" for a moved state.  unwrap_err()
\* likewise: it succeeds exactly in state Err, and panics with "an OK" for Ok
\* and "a moved" for a moved state.
C3_Unwrap ==
    [][LET i == last'.self
           r == results[i]
           Panics(msg) == /\ last'.panic = msg
                          /\ last'.out = NoValue
                          /\ results'[i].state = r.state
                          /\ proc' = "terminated"
       IN /\ last'.op = "unwrap" =>
                IF r.state = "Ok"
                THEN /\ last'.panic = "" /\ last'.out = r.ok
                     /\ results'[i].state = "MovedOk"
                ELSE IF r.state = "Err"
                THEN Panics("Panic: Called unwrap() on an erroneous result!")
                ELSE Panics("Panic: Called unwrap() on a moved result!")
          /\ last'.op = "unwrap_err" =>
                IF r.state = "Err"
                THEN /\ last'.panic = "" /\ last'.out = r.err
                     /\ results'[i].state = "MovedErr"
                ELSE IF r.state = "Ok"
                THEN Panics("Panic: Called unwrap_err() on an OK result!")
                ELSE Panics("Panic: Called unwrap_err() on a moved result!")]_vars

\* unwrap() was called on a failure and panicked with "an erroneous".
C3_Witness ==
    /\ last.op = "unwrap" /\ last.pre = "Err"
    /\ last.panic = "Panic: Called unwrap() on an erroneous result!"
    /\ results[last.self].state = "Err"

\* C4: is_ok() and is_err() of a consumed Result report the side it had
\* before it was consumed: is_ok() is true in Ok and MovedOk, is_err() is
\* true in Err and MovedErr, and neither panics.
C4_QueriesReportSideBeforeConsumption ==
    /\ last.op = "is_ok" =>
          last.panic = "" /\ last.out = Bool(last.pre \in {"Ok", "MovedOk"})
    /\ last.op = "is_err" =>
          last.panic = "" /\ last.out = Bool(last.pre \in {"Err", "MovedErr"})

\* C5: on an unconsumed Result is_ok() == !is_err(), each answers for the
\* state the object is in, and neither changes the object.
C5_QueriesExclusiveAndPure ==
    [][last'.op \in {"is_ok", "is_err"} =>
         LET r == results[last'.self] IN
           /\ results' = results
           /\ last'.panic = ""
           /\ r.state \in {"Ok", "Err"} =>
                /\ is_ok(r) = ~is_err(r)
                /\ last'.op = "is_ok" => last'.out = Bool(r.state = "Ok")
                /\ last'.op = "is_err" => last'.out = Bool(r.state = "Err")]_vars

\* is_err() was asked of an unconsumed success and said no.
C5_Witness ==
    /\ last.op = "is_err" /\ last.pre = "Ok" /\ last.out = Bool(FALSE)
    /\ results[last.self].state = "Ok"
FullyTyped(r) == ~r.tNull /\ ~r.eNull
ConversionsOk == {"Result(Result<U,NullErr>&&)", "checked Result(Result<U,NullErr>&&)"}
ConversionsErr == {"Result(Result<NullOk,F>&&)", "checked Result(Result<NullOk,F>&&)"}

\* C6: ok(v) is in state Ok (is_ok() true, is_err() false); converting it to
\* a Result<T, E>, T the type of v, succeeds and gives a Result in state Ok,
\* and unwrap() of that Result returns v.  err(e) likewise with Err, E the
\* type of e, and unwrap_err().
C6_ConstructionRoundTrip ==
    [][LET i == last'.self
           j == last'.made
       IN /\ last'.op = "ok" =>
                /\ is_ok(results'[j]) /\ ~is_err(results'[j])
                /\ results'[j].state = "Ok" /\ results'[j].ok = origin'[j]
          /\ last'.op = "err" =>
                /\ is_err(results'[j]) /\ ~is_ok(results'[j])
                /\ results'[j].state = "Err" /\ results'[j].err = origin'[j]
          /\ (last'.op \in ConversionsOk /\ origin[i] # NoValue) =>
                /\ last'.panic = "" /\ results'[j].state = "Ok"
                /\ FullyTyped(results'[j]) /\ origin'[j] = origin[i]
          /\ (last'.op \in ConversionsErr /\ origin[i] # NoValue) =>
                /\ last'.panic = "" /\ results'[j].state = "Err"
                /\ FullyTyped(results'[j]) /\ origin'[j] = origin[i]
          /\ (/\ last'.op = "unwrap" /\ origin[i] # NoValue
              /\ results[i].ok.type = origin[i].type) =>
                last'.panic = "" /\ last'.out = origin[i]
          /\ (/\ last'.op = "unwrap_err" /\ origin[i] # NoValue
              /\ results[i].err.type = origin[i].type) =>
                last'.panic = "" /\ last'.out = origin[i]]_vars

\* unwrap() of a fully-typed Result converted from ok(2) returned 2.
C6_Witness ==
    /\ last.op = "unwrap" /\ last.src = IntVal(2) /\ last.out = IntVal(2)
    /\ FullyTyped(results[last.self])

\* Two values with the same content, whatever their static types.
SameValue(a, b) == a.n = b.n /\ a.what = b.what

\* C7: converting a Result<U, NullErr> in state Ok gives a Result in state Ok
\* with the same value and leaves the source in MovedOk; converting a
\* Result<NullOk, F> in state Err gives state Err with the same failure value
\* and leaves the source in MovedErr; from any other state the conversion
\* panics and no Result is made.
C7_Conversion ==
    [][LET i == last'.self
           j == last'.made
           r == results[i]
           Panics == last'.panic # "" /\ j = 0 /\ results'[i].state = r.state
       IN /\ last'.op \in ConversionsOk =>
                IF r.state = "Ok"
                THEN /\ last'.panic = "" /\ results'[j].state = "Ok"
                     /\ SameValue(results'[j].ok, r.ok)
                     /\ results'[i].state = "MovedOk"
                ELSE Panics
          /\ last'.op \in ConversionsErr =>
                IF r.state = "Err"
                THEN /\ last'.panic = "" /\ results'[j].state = "Err"
                     /\ SameValue(results'[j].err, r.err)
                     /\ results'[i].state = "MovedErr"
                ELSE Panics]_vars

\* C8: TRY evaluates its expression once.  On a failure e the function
\* returns at once a Result in state Err with that same e, the target is not
\* assigned and nothing after TRY runs; on a success v the target is v and
\* the function goes on after TRY.
C8_Propagation ==
    (fn.evals > 0 /\ proc = "running") =>
       /\ fn.evals = 1
       /\ fn.got.state = "Err" =>
             /\ fn.pc = "returned" /\ fn.ret.state = "Err"
             /\ SameValue(fn.ret.err, fn.got.err)
             /\ fn.value = Uninit /\ fn.after = 0
       /\ fn.got.state = "Ok" =>
             /\ fn.value = fn.got.ok
             /\ fn.pc = "after" \/ (fn.pc = "returned" /\ fn.after = 1)

C10_Map ==
    [][last'.op = "map" =>
         LET r == results[last'.self]
             m == results'[last'.made]
         IN /\ r.state = "Ok" =>
                  /\ last'.panic = "" /\ m.state = "Ok"
                  /\ m.ok = project(last'.f, r.ok) /\ last'.fcalls = 1
            /\ r.state = "Err" =>
                  /\ last'.panic = "" /\ m.state = "Err"
                  /\ m.err = r.err /\ last'.fcalls = 0]_vars

\* map(square) of a success holding 2 gave a success holding 4.
C10_Witness ==
    /\ last.op = "map" /\ last.f = "square" /\ last.pre = "Ok"
    /\ last.fcalls = 1 /\ results[last.made].ok = IntVal(ValCap)

\* C11: map_err(f) of a Result in state Err with failure e gives a Result in
\* state Err with failure f(e), calling f once; of a Result in state Ok with
\* value v it gives a Result in state Ok with value v and does not call f.
C11_MapErr ==
    [][last'.op = "map_err" =>
         LET r == results[last'.self]
             m == results'[last'.made]
         IN /\ r.state = "Err" =>
                  /\ last'.panic = "" /\ m.state = "Err"
                  /\ m.err = project(last'.f, r.err) /\ last'.fcalls = 1
            /\ r.state = "Ok" =>
                  /\ last'.panic = "" /\ m.state = "Ok"
                  /\ m.ok = r.ok /\ last'.fcalls = 0]_vars

\* map_err(square) of a failure holding 2 gave a failure holding 4.
C11_Witness ==
    /\ last.op = "map_err" /\ last.f = "square" /\ last.pre = "Err"
    /\ last.fcalls = 1 /\ results[last.made].err = IntVal(ValCap)

\* C12: match(if_ok, if_err) of a Result in state Ok calls only if_ok, with
\* the ok value, returns what it returns and leaves the Result in MovedOk; in
\* state Err it calls only if_err, with the failure value, returns what it
\* returns and leaves the Result in MovedErr; of a consumed Result it calls
\* neither.
C12_Match ==
    [][last'.op = "match" =>
         LET r == results[last'.self]
             after == results'[last'.self]
         IN /\ r.state = "Ok" =>
                  /\ last'.panic = "" /\ last'.fcalls = 1 /\ last'.gcalls = 0
                  /\ last'.out = project(last'.f, r.ok)
                  /\ after.state = "MovedOk"
            /\ r.state = "Err" =>
                  /\ last'.panic = "" /\ last'.fcalls = 0 /\ last'.gcalls = 1
                  /\ last'.out = project(last'.g, r.err)
                  /\ after.state = "MovedErr"
            /\ r.state \in Moved =>
                  /\ last'.fcalls = 0 /\ last'.gcalls = 0
                  /\ last'.out = NoValue /\ after = r]_vars

\* match of a failure holding 2 called only if_err = square and returned 4.
C12_Witness ==
    /\ last.op = "match" /\ last.pre = "Err" /\ last.g = "square"
    /\ last.fcalls = 0 /\ last.gcalls = 1 /\ last.out = IntVal(ValCap)
    /\ results[last.self].state = "MovedErr"

\* The same side and the same value on it.
SameSideAndValue(a, b) ==
    \/ a.state = "Ok" /\ b.state = "Ok" /\ a.ok = b.ok
    \/ a.state = "Err" /\ b.state = "Err" /\ a.err = b.err

\* C13: two unconsumed Results compare equal if and only if both are in state
\* Ok with equal ok values or both are in state Err with equal failure
\* values; != is the negation.
C13_Equality ==
    (/\ last.op \in {"==", "!="}
     /\ last.pre \in {"Ok", "Err"} /\ last.arg.state \in {"Ok", "Err"}) =>
       last.out = Bool((last.op = "==")
                       = SameSideAndValue(results[last.self], last.arg))

\* C14: unwrap_or(default) of a Result in state Err returns default and
\* leaves the object as it was, in state Err, so that unwrap_err() then
\* returns the failure value; of a Result in state Ok it returns the ok value
\* and moves the state to MovedOk.
C14_UnwrapOr ==
    [][last'.op = "unwrap_or" =>
         LET r == results[last'.self]
             after == results'[last'.self]
         IN /\ last'.panic = ""
            /\ r.state = "Err" =>
                  /\ last'.out = last'.arg /\ after = r
                  /\ \A o \in unwrap_err(after) : o.panic = "" /\ o.ret = r.err
            /\ r.state = "Ok" =>
                  /\ last'.out = r.ok /\ after.state = "MovedOk"]_vars

\* unwrap_or(0) of a failure returned 0 and the object is still in state Err.
C14_Witness ==
    /\ last.op = "unwrap_or" /\ last.pre = "Err" /\ last.out = IntVal(0)
    /\ results[last.self].state = "Err" /\ results[last.self].err = IntVal(2)

\* No extraction gives a value of r any more: unwrap(), unwrap_err() and
\* match() all panic.
NothingLeft(r) ==
    /\ \A o \in unwrap(r) \cup unwrap_err(r) : o.panic # ""
    /\ \A f \in Funcs, g \in Funcs : \A o \in match(r, f, g) : o.panic # ""

\* C15 as stated: after unwrap_or(default) of a Result in state Ok or Err the
\* Result is consumed, and neither match nor unwrap_err gives its value.
C15_UnwrapOrConsumesSelf ==
    (last.op = "unwrap_or" /\ last.pre \in {"Ok", "Err"}) =>
       /\ results[last.self].state \in Moved
       /\ NothingLeft(results[last.self])

\* C15 amended: unwrap_or(default) consumes self on the Ok branch only.  After
\* it returned on a Result in state Ok the Result is in MovedOk and no
\* extraction gives a value; after it returned on a Result in state Err the
\* Result is still in state Err, unwrap_err() returns its failure value and
\* match() hands that value to if_err.
C15_UnwrapOrConsumesOkOnly ==
    last.op = "unwrap_or" =>
       LET r == results[last.self] IN
         /\ last.pre = "Ok" => r.state = "MovedOk" /\ NothingLeft(r)
         /\ last.pre = "Err" =>
               /\ r.state = "Err"
               /\ last.src.type = r.err.type => r.err = last.src
               /\ \A o \in unwrap_err(r) : o.panic = "" /\ o.ret = r.err
               /\ \A f \in Funcs, g \in Funcs : \A o \in match(r, f, g) :
                     o.panic = "" /\ o.gcalls = 1 /\ o.ret = project(g, r.err)

\* unwrap_or(0) returned on err(1) converted to a Result<int, int>, and the
\* failure 1 is still there.
C15_Witness ==
    /\ last.op = "unwrap_or" /\ last.pre = "Err" /\ last.src = IntVal(1)
    /\ FullyTyped(results[last.self]) /\ results[last.self].err = IntVal(1)

\* C16: unwrap_or_else(fn) of a Result in state Err with failure e returns
\* fn(e) and leaves the Result in MovedErr; of a Result in state Ok it
\* returns the ok value, leaves the Result in MovedOk and does not call fn.
C16_UnwrapOrElse ==
    [][last'.op = "unwrap_or_else" =>
         LET r == results[last'.self]
             after == results'[last'.self]
         IN /\ r.state = "Err" =>
                  /\ last'.panic = "" /\ last'.fcalls = 1
                  /\ last'.out = project(last'.f, r.err)
                  /\ after.state = "MovedErr"
            /\ r.state = "Ok" =>
                  /\ last'.panic = "" /\ last'.fcalls = 0
                  /\ last'.out = r.ok /\ after.state = "MovedOk"]_vars

\* C17: all(next) of a Result in state Ok returns next as it was given, with
\* the same state and value; of a Result in state Err with failure e it
\* returns a Result in state Err with failure e, whatever next is.  any(alt)
\* of a Result in state Err returns alt as it was given; of a Result in state
\* Ok with value v it returns a Result in state Ok with value v.
C17_AllAny ==
    [][LET r == results[last'.self]
           m == results'[last'.made]
           given == last'.arg
       IN /\ last'.op = "all" =>
                /\ (r.state = "Ok" /\ given.state \in {"Ok", "Err"}) =>
                      last'.panic = "" /\ m = given
                /\ r.state = "Err" =>
                      last'.panic = "" /\ m.state = "Err" /\ m.err = r.err
          /\ last'.op = "any" =>
                /\ (r.state = "Err" /\ given.state \in {"Ok", "Err"}) =>
                      last'.panic = "" /\ m = given
                /\ r.state = "Ok" =>
                      last'.panic = "" /\ m.state = "Ok" /\ m.ok = r.ok]_vars

\* all(next) of a success returned next, a failure holding 2.
C17_Witness ==
    /\ last.op = "all" /\ last.pre = "Ok" /\ last.arg.state = "Err"
    /\ results[last.made].state = "Err" /\ results[last.made].err = IntVal(2)

\* C18: all_then(f) calls f once if self is in state Ok and not at all
\* otherwise; any_else(f) calls f once if self is in state Err and not at all
\* otherwise.  When f is not called on an unconsumed self, the Result
\* returned carries self's failure (all_then) or self's ok value (any_else).
C18_Laziness ==
    [][LET r == results[last'.self]
           m == results'[last'.made]
       IN /\ last'.op = "all_then" =>
                /\ last'.fcalls = IF r.state = "Ok" THEN 1 ELSE 0
                /\ r.state = "Err" =>
                      last'.panic = "" /\ m.state = "Err" /\ m.err = r.err
          /\ last'.op = "any_else" =>
                /\ last'.fcalls = IF r.state = "Err" THEN 1 ELSE 0
                /\ r.state = "Ok" =>
                      last'.panic = "" /\ m.state = "Ok" /\ m.ok = r.ok]_vars

\* all_then(f) of a failure holding 2 did not call f and returned a failure
\* holding 2.
C18_Witness ==
    /\ last.op = "all_then" /\ last.pre = "Err" /\ last.fcalls = 0
    /\ results[last.made].state = "Err" /\ results[last.made].err = IntVal(2)

Combinators == {"map", "map_err", "match", "all", "all_then", "any", "any_else"}

\* C19: after map, map_err, match, all, all_then, any or any_else returned on
\* a Result in state Ok or Err, that Result is in MovedOk or MovedErr, and
\* unwrap() and unwrap_err() on it panic.
C19_CombinatorsConsumeSelf ==
    [][(/\ last'.op \in Combinators /\ last'.panic = ""
        /\ results[last'.self].state \in {"Ok", "Err"}) =>
         LET after == results'[last'.self]
         IN /\ after.state \in Moved
            /\ \A o \in unwrap(after) \cup unwrap_err(after) : o.panic # ""]_vars

\* The member a reference names, as the pool rs has it.
Deref(rs, ref) == IF ref.what = "ok" THEN rs[ref.n].ok ELSE rs[ref.n].err

\* C20: as_ref() of a Result in state Ok (Err) returns a Result in the same
\* state whose value refers to the stored ok (failure) value and leaves the
\* original as it was, so that unwrap() (unwrap_err()) of the original still
\* returns the value; unwrapping a view changes no other object; as_ref() of
\* a consumed Result panics.
C20_AsRef ==
    [][LET i == last'.self
           r == results[i]
           m == results'[last'.made]
       IN /\ last'.op = "as_ref" =>
                /\ r.state = "Ok" =>
                      /\ last'.panic = "" /\ m.state = "Ok"
                      /\ m.ok = Ref(i, "ok") /\ Deref(results', m.ok) = r.ok
                      /\ results'[i] = r
                      /\ \A o \in unwrap(results'[i]) : o.panic = "" /\ o.ret = r.ok
                /\ r.state = "Err" =>
                      /\ last'.panic = "" /\ m.state = "Err"
                      /\ m.err = Ref(i, "err") /\ Deref(results', m.err) = r.err
                      /\ results'[i] = r
                      /\ \A o \in unwrap_err(results'[i]) : o.panic = "" /\ o.ret = r.err
                /\ r.state \in Moved =>
                      /\ last'.panic = "Panic: Called as_ref() on a moved result!"
                      /\ last'.made = 0 /\ proc' = "terminated"
          /\ (last'.op \in Extractions /\ last'.out.type = "ref") =>
                \A k \in Slots \ {i} : results'[k] = results[k]]_vars

\* The view of a success holding 2 was unwrapped, and the original is still
\* in state Ok and holds 2.
C20_Witness ==
    /\ last.op = "unwrap" /\ last.out.type = "ref" /\ last.out.what = "ok"
    /\ results[last.self].state = "MovedOk"
    /\ results[last.out.n].state = "Ok" /\ results[last.out.n].ok = IntVal(2)

Copies == {"Result(const Result&)"}
Moves == {"Result(Result&&)", "checked Result(Result&&)"}

\* C21: copy-constructing from a Result in MovedOk or MovedErr takes the
\* panic path, and no copy comes to exist.
C21_CopyOfConsumedPanics ==
    [][(last'.op \in Copies /\ results[last'.self].state \in Moved) =>
         /\ last'.panic # "" /\ last'.made = 0 /\ proc' = "terminated"
         /\ \A k \in Slots : Live(k)' => Live(k)]_vars

\* A copy of a consumed Result was asked for, and panicked.
C21_Witness ==
    /\ last.op \in Copies /\ last.pre \in Moved /\ last.panic # ""
    /\ last.made = 0 /\ proc = "terminated"

\* C22: copy-constructing from a Result in state Ok (resp. Err) yields a
\* Result in the same state with an equal value on the live side only, and
\* the source is unchanged: same state, same value, still extractable.
C22_CopyLeavesSource ==
    [][(last'.op \in Copies /\ results[last'.self].state \in {"Ok", "Err"}) =>
         LET r == results[last'.self]
             m == results'[last'.made]
         IN  /\ last'.panic = "" /\ last'.made # 0
             /\ m.state = r.state
             /\ (r.state = "Ok" => m.ok = r.ok /\ m.err = Uninit)
             /\ (r.state = "Err" => m.err = r.err /\ m.ok = Uninit)
             /\ results'[last'.self] = r
             /\ \E o \in (IF r.state = "Ok" THEN unwrap(results'[last'.self])
                                            ELSE unwrap_err(results'[last'.self])) :
                    o.panic = "" /\ o.ret = (IF r.state = "Ok" THEN r.ok ELSE r.err)]_vars

\* The side of the storage that has been constructed in a Result.
Constructed(r) ==
    {side \in {"ok", "err"} : (IF side = "ok" THEN r.ok ELSE r.err) # Uninit}

Named(r) == IF r.state \in {"Ok", "MovedOk"} THEN "ok" ELSE "err"

\* C25: move-constructing from a Result in state Ok (resp. Err) yields a
\* Result in state Ok (resp. Err) with the source's value and leaves the
\* source in MovedOk (resp. MovedErr); from a consumed Result it panics; and
\* whatever operation brings a Result into being, it begins in Ok or Err.
C25_MoveCtor ==
    [][/\ last'.op \in Moves =>
            LET r == results[last'.self]
                m == results'[last'.made]
                a == results'[last'.self]
            IN  /\ r.state = "Ok" =>
                     /\ last'.panic = "" /\ last'.made # 0
                     /\ m.state = "Ok" /\ m.ok = r.ok /\ a.state = "MovedOk"
                /\ r.state = "Err" =>
                     /\ last'.panic = "" /\ last'.made # 0
                     /\ m.state = "Err" /\ m.err = r.err /\ a.state = "MovedErr"
                /\ r.state \in Moved =>
                     /\ last'.panic # "" /\ last'.made = 0 /\ proc' = "terminated"
                     /\ \A k \in Slots : Live(k)' => Live(k)
       /\ \A k \in Slots :
            (~Live(k) /\ Live(k)') => results'[k].state \in {"Ok", "Err"}]_vars

\* A Result was move-constructed from an Ok one: the new one is Ok with the
\* value, the source is MovedOk.
C25_Witness ==
    /\ last.op \in Moves /\ last.pre = "Ok" /\ last.panic = "" /\ last.made # 0
    /\ results[last.made].state = "Ok" /\ results[last.made].ok = last.src
    /\ results[last.self].state = "MovedOk"

\* C24: in every Result exactly one side of the storage is constructed, the
\* one its state names (ok for Ok and MovedOk, err for Err and MovedErr); no
\* operation constructs or touches the other side while the Result lives,
\* and the destructor destroys the constructed side.
C24_StorageTagAgreement ==
    [][/\ \A k \in Slots :
            /\ Live(k)' => Constructed(results'[k]) = {Named(results'[k])}
            /\ (Live(k) /\ Live(k)') =>
                   Constructed(results'[k]) = Constructed(results[k])
       /\ last'.op = "~Result" =>
            {last'.out.what} = Constructed(results[last'.self])]_vars

\* A Result whose ok side was constructed has been destroyed on that side,
\* while a consumed Result lives with its ok side still the constructed one.
C24_Witness ==
    /\ last.op = "~Result" /\ last.out.what = "ok"
    /\ \E k \in Slots : Live(k) /\ results[k].state = "MovedOk"
                          /\ Constructed(results[k]) = {"ok"}

\* C23: whenever an operation panics in the build with exceptions, the
\* diagnostic reaches a surrounding handler as a caught error and the
\* process keeps running.
C23_PanicIsCatchable ==
    last.panic # "" => proc = "running"
====
